---- MODULE Spec2Model ----
(***************************************************************************)
(* Benchmark sessions of the fio stress testers (disk_stress_test.py,      *)
(* fs_stress_test.py, fs_stress_test_refactored.py) over one SQLite        *)
(* results store: run creation, the trial loop of every workload,          *)
(* aggregation, result rows and the previous-result lookup.                *)
(*                                                                         *)
(* Metric values (Python floats) are held in thousandths of their unit, as  *)
(* non-negative integers: 1095445 is 1095.445.  Python's None is the value *)
(* None below, which lies outside the range of every metric and run id.    *)
(***************************************************************************)
EXTENDS Integers, Sequences, FiniteSets, TLC

\* ------------------------------------------------------------------ bounds
\* Number of benchmark sessions (processes) run against the store.
NumSessions == 3
\* Number of workloads kept from the head of each script's workload list.
MaxTests == 2
\* Largest value of the -r/--repeat option that is explored.
MaxRuns == 2
\* Longest list of trial values handed to the aggregation on its own.
MaxTrials == 3

Sessions == 1..NumSessions

\* The three scripts; every session of one behaviour runs the same script.
Variants == {"disk", "fs", "ref"}

None == -1

VARIABLES
    variant,        \* which script is installed
    repeat,         \* the -r/--repeat command line value (self.runs)
    stdouts,        \* the reports the tool can print on this machine
    sqlite_sequence,\* AUTOINCREMENT counter of table test_runs
    test_runs,      \* committed rows of test_runs (their ids)
    test_results,   \* committed rows of test_results, in insertion order
    pc,             \* per session: the statement it is at
    run_id,         \* per session: self.run_id
    test_i,         \* per session: index of the workload being run
    run,            \* per session: trials of the workload started so far
    results,        \* per session: the per-metric trial lists
    geomean_results,\* per session: the aggregated triple
    prev_metrics,   \* per session: the triple get_previous_results returned
    db_error,       \* per session: the sqlite3.Error the last storage call caught
    shown,          \* per session: the changes display_results has just printed
    slept,          \* per session: time.sleep(2) has run since the last tool invocation
    unclosed,       \* per session: a connection it opened has not been closed
    ended_by,       \* per session: what ended it abnormally
    fio_calls,      \* per session: number of tool invocations attempted
    lookups,        \* per session: number of previous-result lookups made
    inserted,       \* per session: number of result rows it has committed
    reported,       \* per session: workloads passed to display_results
    call,           \* a function of the scripts applied on its own: name, arguments, result
    parsed          \* the first extraction applied on its own

vars == <<variant, repeat, stdouts, sqlite_sequence, test_runs, test_results, pc,
          run_id, test_i, run, results, geomean_results, prev_metrics, db_error,
          shown, slept, unclosed, ended_by, fio_calls, lookups, inserted, reported,
          call, parsed>>

store == <<sqlite_sequence, test_runs, test_results>>
config == <<variant, repeat, stdouts>>

\* ------------------------------------------------------------ workloads
\* The workload lists of run_all_tests, in iteration order.
AllTests(v) ==
    IF v = "disk"
    THEN <<"Random Write", "Random Read", "Mixed ReadWrite", "Sequential Write",
           "Metadata-Intensive", "FSyncHeavyWorkload">>
    ELSE <<"Metadata-Intensive", "Random Writes", "Mixed ReadWrite">>

Min(a, b) == IF a < b THEN a ELSE b

\* The workloads a session of the model iterates over.
Tests(v) == SubSeq(AllTests(v), 1, Min(MaxTests, Len(AllTests(v))))

\* ------------------------------------------------------- captured output
\* One metric token of the tool's standard output, as the extractor's regular
\* expressions see it: the label before "=", the text matched by [0-9.]+ (its
\* value in thousandths, and whether float() accepts it), the letter after the
\* number and the unit tail ("iB/s", "B/s", or "" for a metric without one).
NoTok == [found |-> FALSE, key |-> "", num |-> 0, wellformed |-> TRUE,
          unit |-> "", tail |-> ""]

Tok(key, num, wellformed, unit, tail) ==
    [found |-> TRUE, key |-> key, num |-> num, wellformed |-> wellformed,
     unit |-> unit, tail |-> tail]

\* Reports of the tool: one with all three metrics ("IOPS=2", "lat ... avg=2",
\* "bw=1KiB/s"), and one whose throughput number is malformed ("IOPS=1.2.3")
\* and whose latency section is missing.
OutGood  == [iops |-> Tok("IOPS", 2000, TRUE, "", ""),
             lat  |-> Tok("lat", 2000, TRUE, "", ""),
             bw   |-> Tok("bw", 1000, TRUE, "K", "iB/s")]
OutPartial == [iops |-> Tok("IOPS", 2000, FALSE, "", ""),
               lat  |-> NoTok,
               bw   |-> Tok("bw", 1000, TRUE, "K", "iB/s")]

FioOutputs == {OutGood, OutPartial}

\* Reports with a throughput of 1000 and of 1200 ("IOPS=1000", "IOPS=1200"),
\* the second without a latency section.
Out1000 == [iops |-> Tok("IOPS", 1000000, TRUE, "", ""),
            lat  |-> Tok("lat", 2000, TRUE, "", ""),
            bw   |-> Tok("bw", 1000, TRUE, "K", "iB/s")]
Out1200 == [iops |-> Tok("IOPS", 1200000, TRUE, "", ""),
            lat  |-> NoTok,
            bw   |-> Tok("bw", 1000, TRUE, "K", "iB/s")]

\* What subprocess.run can do: raise OSError because the command cannot be
\* started, or return a completed process with an exit code and its stdout.
ProcOutcomes ==
    {[launched |-> FALSE, returncode |-> 0, stdout |-> OutGood]}
    \cup {[launched |-> TRUE, returncode |-> 0, stdout |-> o] : o \in stdouts}
    \cup {[launched |-> TRUE, returncode |-> 1, stdout |-> OutGood]}

\* ------------------------------------------------------------- extraction
\* A Python value or a raised exception.
Val(v) == [exc |-> FALSE, val |-> v]
Raise == [exc |-> TRUE, val |-> 0]

\* float(matches.group(1)): ValueError on text such as "1.2.3".
Float(tok) == IF tok.wellformed THEN Val(tok.num) ELSE Raise

Lower(u) ==
    CASE u = "K" -> "k" [] u = "M" -> "m" [] u = "G" -> "g" [] OTHER -> u

\* The group ([kKMG]?) of a case-sensitive pattern: any other letter is not
\* part of the match.
Group2(tok) == IF tok.unit \in {"k", "K", "M", "G"} THEN tok.unit ELSE ""

\* Multiplier with the decimal table for both bases.
Multiplier_decimal_only(unit, binary) ==
    CASE unit = "k" -> 1000 [] unit = "m" -> 1000 * 1000
      [] unit = "g" -> 1000 * 1000 * 1000 [] OTHER -> 1

Multiplier(unit, binary) ==
    IF binary
    THEN CASE unit = "k" -> 1024 [] unit = "m" -> 1024 * 1024
           [] unit = "g" -> 1024 * 1024 * 1024 [] OTHER -> 1
    ELSE CASE unit = "k" -> 1000 [] unit = "m" -> 1000 * 1000
           [] unit = "g" -> 1000 * 1000 * 1000 [] OTHER -> 1

\* MetricExtractor.convert_units(val, unit, binary), which is also the body
\* of _convert_units after its float() and lower().
MetricExtractor_convert_units(val, unit, binary) ==
    IF unit = "" THEN val ELSE val * Multiplier(unit, binary)

\* _convert_units on the match of a token; in the refactored script, the
\* float(), lower() and convert_units(val, unit, binary) of the extractor.
convert_units(tok, binary) ==
    LET f == Float(tok)
        unit == Lower(Group2(tok))
    IN  IF f.exc THEN Raise
        ELSE Val(MetricExtractor_convert_units(f.val, unit, binary))

\* The value a miss yields: 0.0 / 0 in the two scripts, None in the refactored
\* extractor.
Miss(v) == IF v = "ref" THEN Val(None) ELSE Val(0)

extract_iops(v, out) ==
    IF out.iops.found /\ out.iops.key \in {"iops", "IOPS"}
    THEN convert_units(out.iops, FALSE)
    ELSE Miss(v)

extract_latency(v, out) ==
    IF out.lat.found THEN Float(out.lat) ELSE Miss(v)

\* The bandwidth cascade.  disk_stress_test.py scales the byte form with the
\* decimal table and divides every match by 1024; the other two scripts scale
\* both forms with the binary table and do not divide.
extract_bandwidth(v, out) ==
    LET t == out.bw
        first  == t.found /\ t.key = "bw" /\ t.tail = "iB/s"
                  /\ t.unit \in {"", "k", "K", "M", "G"}
        second == t.found /\ t.key = "bw" /\ t.tail = "B/s"
                  /\ t.unit \in {"", "k", "K", "M", "G"}
        later  == t.found /\ t.key \in {"bw", "BW", "Bw", "bW"}
                  /\ t.tail \in {"iB/s", "B/s"}
                  /\ t.unit \in {"", "k", "K", "m", "M", "g", "G"}
        scaled(binary) ==
            LET c == convert_units(t, binary)
            IN  IF c.exc THEN Raise
                ELSE IF v = "disk" THEN Val(c.val \div 1024) ELSE c
        fallback ==
            LET f == Float(t)
            IN  IF f.exc THEN Raise
                ELSE Val((f.val * Multiplier(Lower(t.unit), TRUE)) \div 1024)
    IN  IF first THEN scaled(TRUE)
        ELSE IF second THEN scaled(v # "disk")
        ELSE IF v = "disk" /\ later THEN fallback
        ELSE Miss(v)

\* extract_metric of the two scripts: an exception of the extractor is caught
\* and replaced by 0.
extract_metric(v, out, metric) ==
    LET r == CASE metric = "iops" -> extract_iops(v, out)
               [] metric = "lat" -> extract_latency(v, out)
               [] OTHER -> extract_bandwidth(v, out)
    IN  IF r.exc THEN Val(0) ELSE r

\* "x or 0" of execute_fio_run / extract_metrics.
OrZero(r) == IF r.exc THEN r ELSE IF r.val = None \/ r.val = 0 THEN Val(0) ELSE r

\* An extractor that keeps the values of the extraction before: a metric it
\* does not find in the text is given the value found the last time.
extract_metrics_keeps_last(v, out) ==
    LET last(k) == IF call.fn = "extract_metrics" /\ ~call.ret.exc
                   THEN Val(call.ret.val[k]) ELSE Val(0)
        i == IF out.iops.found /\ out.iops.wellformed THEN out.iops.num ELSE last(1).val
        l == IF out.lat.found /\ out.lat.wellformed THEN out.lat.num ELSE last(2).val
        b == IF out.bw.found /\ out.bw.wellformed THEN out.bw.num ELSE last(3).val
    IN  Val(<<i, l, b>>)

\* The triple one successful invocation contributes, or the exception that
\* leaves the extractor.  The refactored extract_metrics has no handler.
extract_metrics(v, out) ==
    LET i == IF v = "ref" THEN OrZero(extract_iops(v, out))
             ELSE IF v = "fs" THEN OrZero(extract_metric(v, out, "iops"))
             ELSE extract_metric(v, out, "iops")
        l == IF v = "ref" THEN OrZero(extract_latency(v, out))
             ELSE IF v = "fs" THEN OrZero(extract_metric(v, out, "lat"))
             ELSE extract_metric(v, out, "lat")
        b == IF v = "ref" THEN OrZero(extract_bandwidth(v, out))
             ELSE IF v = "fs" THEN OrZero(extract_metric(v, out, "bw"))
             ELSE extract_metric(v, out, "bw")
    IN  IF i.exc \/ l.exc \/ b.exc THEN Raise
        ELSE Val(<<i.val, l.val, b.val>>)

\* ------------------------------------------------------------ aggregation
\* Products of metric values exceed the machine integers of TLC, so
\* they are held as sequences of base-100 digits, least significant first,
\* without leading zeros.
RECURSIVE Big(_)
Big(n) == IF n = 0 THEN <<>> ELSE <<n % 100>> \o Big(n \div 100)

RECURSIVE BigTimesCarry(_, _, _)
BigTimesCarry(a, m, c) ==
    IF a = <<>> THEN Big(c)
    ELSE LET t == Head(a) * m + c
         IN  <<t % 100>> \o BigTimesCarry(Tail(a), m, t \div 100)

BigTimes(a, m) == IF m = 0 THEN <<>> ELSE BigTimesCarry(a, m, 0)

RECURSIVE BigLessFrom(_, _, _)
BigLessFrom(a, b, i) ==
    IF i = 0 THEN FALSE
    ELSE IF a[i] # b[i] THEN a[i] < b[i]
    ELSE BigLessFrom(a, b, i - 1)

BigLess(a, b) ==
    IF Len(a) # Len(b) THEN Len(a) < Len(b) ELSE BigLessFrom(a, b, Len(a))

RECURSIVE Product(_)
Product(s) == IF s = <<>> THEN Big(1) ELSE BigTimes(Product(Tail(s)), Head(s))

RECURSIVE Power(_, _)
Power(b, n) == IF n = 0 THEN Big(1) ELSE BigTimes(Power(b, n - 1), b)

SeqMax(s) == CHOOSE x \in {s[i] : i \in DOMAIN s} : \A i \in DOMAIN s : s[i] <= x
SeqMin(s) == CHOOSE x \in {s[i] : i \in DOMAIN s} : \A i \in DOMAIN s : s[i] >= x

\* The greatest r in lo..hi with r^n <= p, by bisection.
RECURSIVE RootBetween(_, _, _, _)
RootBetween(lo, hi, n, p) ==
    IF lo >= hi THEN lo
    ELSE LET mid == (lo + hi + 1) \div 2
         IN  IF BigLess(p, Power(mid, n))
             THEN RootBetween(lo, mid - 1, n, p)
             ELSE RootBetween(mid, hi, n, p)

\* The n-th root of the product of the positive values s, to the last digit
\* held (a thousandth); it lies between the least and the greatest of them.
IRoot(s) == RootBetween(SeqMin(s), SeqMax(s), Len(s), Product(s))

\* calculate_geomean multiplying the zero entries in.
calculate_geomean_with_zeros(values) ==
    LET valid_values == SelectSeq(values, LAMBDA x : x # None /\ x >= 0)
    IN  IF valid_values = <<>> THEN 0
        ELSE IRoot(valid_values)

\* Geometric mean of the strictly positive entries, 0.0 when there is none.
calculate_geomean(values) ==
    LET valid_values == SelectSeq(values, LAMBDA x : x # None /\ x > 0)
    IN  IF valid_values = <<>> THEN 0
        ELSE IRoot(valid_values)

\* ---------------------------------------------------------------- store
RECURSIVE SetMax(_)
SetMax(S) == IF S = {} THEN 0
             ELSE LET x == CHOOSE y \in S : TRUE
                      m == SetMax(S \ {x})
                  IN  IF x > m THEN x ELSE m

\* NextRowId handing out the counter's current value once it is in use.
NextRowId_reused == IF sqlite_sequence = 0 THEN 1 ELSE sqlite_sequence

\* INTEGER PRIMARY KEY AUTOINCREMENT: one more than the largest id the table
\* has ever held.
NextRowId == (IF sqlite_sequence > SetMax(test_runs)
              THEN sqlite_sequence ELSE SetMax(test_runs)) + 1

\* float(x) if x is not None else 0.0
ToFloat(x) == IF x # None THEN x ELSE 0

\* ResultRow with the latency and bandwidth parameters bound in the wrong order.
ResultRow_swapped(rid, test_name, iops, latency, bandwidth) ==
    [run_id |-> rid, test_name |-> test_name, iops |-> ToFloat(iops),
     latency_ms |-> ToFloat(bandwidth), bandwidth_kbs |-> ToFloat(latency)]

\* The row save_results inserts.
ResultRow(rid, test_name, iops, latency, bandwidth) ==
    [run_id |-> rid, test_name |-> test_name, iops |-> ToFloat(iops),
     latency_ms |-> ToFloat(latency), bandwidth_kbs |-> ToFloat(bandwidth)]

\* PreviousRows with tr.id <= ?: the looking run's own row is a candidate.
PreviousRows_or_own(test_name, rid) ==
    SelectSeq(test_results,
              LAMBDA r : r.run_id \in test_runs /\ r.test_name = test_name
                         /\ r.run_id <= rid)

\* PreviousRows with tr.id != ?: the rows of every run but the looking one.
PreviousRows_of_other_runs(test_name, rid) ==
    SelectSeq(test_results,
              LAMBDA r : r.run_id \in test_runs /\ r.test_name = test_name
                         /\ r.run_id # rid)

\* FROM test_results r JOIN test_runs tr ON r.run_id = tr.id
\* WHERE r.test_name = ? AND tr.id < ?
PreviousRows(test_name, rid) ==
    SelectSeq(test_results,
              LAMBDA r : r.run_id \in test_runs /\ r.test_name = test_name
                         /\ r.run_id < rid)

\* FirstRows looking only at the run just before rid, whatever it holds.
FirstRows_nearest_run_only(test_name, rid) ==
    LET rows == PreviousRows(test_name, rid)
    IN  {rows[i] : i \in {j \in DOMAIN rows :
                            \A r \in test_runs : r < rid => r <= rows[j].run_id}}

\* FirstRows with ORDER BY tr.id ASC: the oldest row instead of the newest.
FirstRows_ascending(test_name, rid) ==
    LET rows == PreviousRows(test_name, rid)
    IN  {rows[i] : i \in {j \in DOMAIN rows :
                            \A k \in DOMAIN rows : rows[k].run_id >= rows[j].run_id}}

\* ORDER BY tr.id DESC LIMIT 1: the rows fetchone() may return.
FirstRows(test_name, rid) ==
    LET rows == PreviousRows(test_name, rid)
    IN  {rows[i] : i \in {j \in DOMAIN rows :
                            \A k \in DOMAIN rows : rows[k].run_id <= rows[j].run_id}}

NoPrevious == <<None, None, None>>

\* ----------------------------------------------------------------- trend
\* Decimal long division: the quotient of n by d carried to k further decimal
\* digits, with the remainder left.
DivStep(qr, d) == <<qr[1] * 10 + (qr[2] * 10) \div d, (qr[2] * 10) % d>>

RECURSIVE Digits(_, _, _)
Digits(n, d, k) == IF k = 0 THEN <<n \div d, n % d>> ELSE DivStep(Digits(n, d, k - 1), d)

\* n / d in units of 10^-k, rounded to the nearest as "%.2f" does.
Rounded(n, d, k) ==
    LET qr == Digits(n, d, k)
    IN  IF 2 * qr[2] >= d THEN qr[1] + 1 ELSE qr[1]

\* The string "N/A".
NotApplicable == [na |-> TRUE, colour |-> "", sign |-> "", hundredths |-> 0]

\* calc_percentage_change dividing by the current value.
calc_percentage_change_of_current(current, previous, is_latency) ==
    IF previous = None \/ previous = 0 \/ current = 0 THEN NotApplicable
    ELSE LET negative == current < previous
             distance == IF negative THEN previous - current ELSE current - previous
         IN  [na |-> FALSE,
              colour |-> IF negative = is_latency THEN "GREEN" ELSE "RED",
              sign |-> IF negative THEN "-" ELSE "+",
              hundredths |-> Rounded(distance, current, 4)]

\* calc_percentage_change that colours by the sign alone, for every metric.
calc_percentage_change_any_metric(current, previous, is_latency) ==
    IF previous = None \/ previous = 0 THEN NotApplicable
    ELSE LET negative == current < previous
             distance == IF negative THEN previous - current ELSE current - previous
         IN  [na |-> FALSE,
              colour |-> IF negative THEN "RED" ELSE "GREEN",
              sign |-> IF negative THEN "-" ELSE "+",
              hundredths |-> Rounded(distance, previous, 4)]

\* calc_percentage_change testing change <= 0 where the scripts test
\* change < 0.
calc_percentage_change_zero_is_negative(current, previous, is_latency) ==
    IF previous = None \/ previous = 0 THEN NotApplicable
    ELSE LET negative == current <= previous
             distance == IF negative THEN previous - current ELSE current - previous
         IN  [na |-> FALSE,
              colour |-> IF negative = is_latency THEN "GREEN" ELSE "RED",
              sign |-> IF negative THEN "-" ELSE "+",
              hundredths |-> Rounded(distance, previous, 4)]

\* calc_percentage_change: ((current - previous) / previous) * 100 printed
\* with two decimals, "+" before a change that is not negative, in green when
\* the change is good and in red otherwise.  hundredths is the magnitude
\* printed, in hundredths of a percent.
calc_percentage_change(current, previous, is_latency) ==
    IF previous = None \/ previous = 0 THEN NotApplicable
    ELSE LET negative == current < previous
             distance == IF negative THEN previous - current ELSE current - previous
         IN  [na |-> FALSE,
              colour |-> IF negative = is_latency THEN "GREEN" ELSE "RED",
              sign |-> IF negative THEN "-" ELSE "+",
              hundredths |-> Rounded(distance, previous, 4)]

\* The three changes display_results prints; none without a previous result.
Changes(metrics, prev) ==
    IF prev[1] = None THEN <<>>
    ELSE <<calc_percentage_change(metrics[1], prev[1], FALSE),
           calc_percentage_change(metrics[2], prev[2], TRUE),
           calc_percentage_change(metrics[3], prev[3], FALSE)>>

\* ------------------------------------------------------------- sessions
Terminal == {"finished", "exited", "crashed"}

\* No function has been applied on its own.
NoCall == [fn |-> "", args |-> <<>>, ret |-> <<>>]

\* No extraction has been applied on its own.
NoneParsed == [args |-> <<>>, ret |-> <<>>, others |-> FALSE]

EmptyResults == [iops |-> <<>>, lat |-> <<>>, bw |-> <<>>]

TypeOK ==
    /\ variant \in Variants
    /\ repeat \in 0..MaxRuns
    /\ pc \in [Sessions -> {"NotStarted", "main", "init_database", "save_run_metadata",
                            "get_storage_info", "run_all_tests", "run_test", "trial",
                            "geomean", "save_results", "get_previous_results",
                            "display_results", "cleanup"} \cup Terminal]

\* No session has started and the store is new.
Fresh ==
    /\ sqlite_sequence = 0
    /\ test_runs = {}
    /\ test_results = <<>>
    /\ pc = [s \in Sessions |-> "NotStarted"]
    /\ run_id = [s \in Sessions |-> None]
    /\ test_i = [s \in Sessions |-> 0]
    /\ run = [s \in Sessions |-> 0]
    /\ results = [s \in Sessions |-> EmptyResults]
    /\ geomean_results = [s \in Sessions |-> NoPrevious]
    /\ prev_metrics = [s \in Sessions |-> NoPrevious]
    /\ db_error = [s \in Sessions |-> FALSE]
    /\ shown = [s \in Sessions |-> <<>>]
    /\ slept = [s \in Sessions |-> FALSE]
    /\ unclosed = [s \in Sessions |-> FALSE]
    /\ ended_by = [s \in Sessions |-> ""]
    /\ fio_calls = [s \in Sessions |-> 0]
    /\ lookups = [s \in Sessions |-> 0]
    /\ inserted = [s \in Sessions |-> 0]
    /\ reported = [s \in Sessions |-> <<>>]
    /\ call = NoCall
    /\ parsed = NoneParsed

Init ==
    /\ variant \in Variants
    /\ repeat \in 0..MaxRuns
    /\ stdouts = FioOutputs
    /\ Fresh

\* The process is gone: its frame (loop counters, trial lists, aggregates) no
\* longer exists.  self.run_id is kept as what the session had obtained.
Ends(s, how, why) ==
    /\ pc' = [pc EXCEPT ![s] = how]
    /\ ended_by' = [ended_by EXCEPT ![s] = why]
    /\ test_i' = [test_i EXCEPT ![s] = 0]
    /\ run' = [run EXCEPT ![s] = 0]
    /\ results' = [results EXCEPT ![s] = EmptyResults]
    /\ geomean_results' = [geomean_results EXCEPT ![s] = NoPrevious]
    /\ prev_metrics' = [prev_metrics EXCEPT ![s] = NoPrevious]
    /\ db_error' = [db_error EXCEPT ![s] = FALSE]
    /\ shown' = [shown EXCEPT ![s] = <<>>]
    /\ slept' = [slept EXCEPT ![s] = FALSE]
    /\ unclosed' = [unclosed EXCEPT ![s] = FALSE]

Goto(s, label) == pc' = [pc EXCEPT ![s] = label]

frame == <<test_i, run, results, geomean_results, prev_metrics, db_error, shown,
          slept, unclosed>>
history == <<fio_calls, lookups, inserted, reported>>

\* Sessions are started one after another (single-writer use of the store).
MayStart(s) == IF s = 1 THEN TRUE ELSE pc[s - 1] \in Terminal

\* A session is started from the command line.
Start(s) ==
    /\ pc[s] = "NotStarted"
    /\ MayStart(s)
    /\ Goto(s, "main")
    /\ UNCHANGED <<config, call, parsed, store, run_id, frame, ended_by, history>>

\* main(): build the configuration and the tester, call run().  No script
\* calls TestConfig.validate or checks --repeat; the refactored main reads
\* args.repea, which argparse does not define (AttributeError).
main(s) ==
    /\ pc[s] = "main"
    /\ IF variant = "ref"
       THEN Ends(s, "crashed", "main: AttributeError")
       ELSE /\ Goto(s, "init_database")
            /\ UNCHANGED <<frame, ended_by>>
    /\ UNCHANGED <<config, call, parsed, store, run_id, history>>

\* FSStressTester(config).run() of the refactored script, entered by a caller
\* other than its main.
run_entry(s) ==
    /\ pc[s] = "NotStarted"
    /\ MayStart(s)
    /\ variant = "ref"
    /\ Goto(s, "init_database")
    /\ UNCHANGED <<config, call, parsed, store, run_id, frame, ended_by, history>>

\* init_database: CREATE TABLE IF NOT EXISTS; sys.exit(1) on sqlite3.Error.
init_database(s) ==
    /\ pc[s] = "init_database"
    /\ \E ok \in BOOLEAN :
         IF ok
         THEN Goto(s, "save_run_metadata") /\ UNCHANGED <<frame, ended_by>>
         ELSE Ends(s, "exited", "init_database")
    /\ UNCHANGED <<config, call, parsed, store, run_id, history>>

\* save_run_metadata whose handler prints the error and returns.
save_run_metadata_returns(s) ==
    /\ pc[s] = "save_run_metadata"
    /\ \E outcome \in {"ok", "execute", "commit"} :
         /\ IF outcome = "ok"
            THEN /\ test_runs' = test_runs \cup {NextRowId}
                 /\ sqlite_sequence' = NextRowId
                 /\ UNCHANGED ended_by
            ELSE /\ UNCHANGED <<test_runs, sqlite_sequence>>
                 /\ ended_by' = [ended_by EXCEPT ![s] = "save_run_metadata"]
         /\ run_id' = [run_id EXCEPT ![s] =
                         IF outcome = "ok" \/ (outcome = "commit" /\ variant # "ref")
                         THEN NextRowId ELSE run_id[s]]
    /\ Goto(s, "get_storage_info")
    /\ UNCHANGED <<config, call, parsed, test_results, frame, history>>

\* save_run_metadata: INSERT INTO test_runs, self.run_id = cursor.lastrowid,
\* commit.  sqlite3.Error raised before the insert completes ("execute") or by
\* the commit ("commit", which rolls the insert back) ends in sys.exit(1).  The
\* two scripts assign self.run_id before the commit; the refactored one returns
\* the id only after it.
save_run_metadata(s) ==
    /\ pc[s] = "save_run_metadata"
    /\ \E outcome \in {"ok", "execute", "commit"} :
         /\ IF outcome = "ok"
            THEN /\ test_runs' = test_runs \cup {NextRowId}
                 /\ sqlite_sequence' = NextRowId
                 /\ Goto(s, "get_storage_info")
                 /\ UNCHANGED <<frame, ended_by>>
            ELSE /\ UNCHANGED <<test_runs, sqlite_sequence>>
                 /\ Ends(s, "exited", "save_run_metadata")
         /\ run_id' = [run_id EXCEPT ![s] =
                         IF outcome = "ok" \/ (outcome = "commit" /\ variant # "ref")
                         THEN NextRowId ELSE run_id[s]]
    /\ UNCHANGED <<config, call, parsed, test_results, history>>

\* get_storage_info / StorageAnalyzer.analyze: the device probe.
get_storage_info(s) ==
    /\ pc[s] = "get_storage_info"
    /\ Goto(s, "run_all_tests")
    /\ UNCHANGED <<config, call, parsed, store, run_id, frame, ended_by, history>>

\* run_all_tests up to its loop: display_test_parameters, pre_allocate_file.
\* The refactored display_test_parameters reads config.num_jobs, which its
\* TestConfig does not have (AttributeError).
run_all_tests(s) ==
    /\ pc[s] = "run_all_tests"
    /\ IF variant = "ref"
       THEN Ends(s, "crashed", "display_test_parameters: AttributeError")
       ELSE IF Tests(variant) = <<>>
       THEN Goto(s, "cleanup") /\ UNCHANGED <<frame, ended_by>>
       ELSE /\ Goto(s, "run_test")
            /\ test_i' = [test_i EXCEPT ![s] = 1]
            /\ UNCHANGED <<run, results, geomean_results, prev_metrics, db_error,
                           shown, slept, unclosed, ended_by>>
    /\ UNCHANGED <<config, call, parsed, store, run_id, history>>

\* run_test up to its loop: fresh trial lists, drop_caches.
run_test(s) ==
    /\ pc[s] = "run_test"
    /\ results' = [results EXCEPT ![s] = EmptyResults]
    /\ run' = [run EXCEPT ![s] = 0]
    /\ shown' = [shown EXCEPT ![s] = <<>>]
    /\ slept' = [slept EXCEPT ![s] = FALSE]
    /\ Goto(s, "trial")
    /\ UNCHANGED <<config, call, parsed, store, run_id, test_i, geomean_results,
                   prev_metrics, db_error, unclosed, ended_by, history>>

\* The three entries one trial appends, given what subprocess.run did.  A
\* non-zero exit raises SubprocessError (CalledProcessError), whose handler
\* appends 0 to every list without reading stdout.
TrialEntries(v, proc) ==
    IF proc.returncode # 0 THEN Val(<<0, 0, 0>>) ELSE extract_metrics(v, proc.stdout)

\* AppendTrial leaving a failed trial out of the lists.
AppendTrial_skips_failed(r, t) ==
    IF t = <<0, 0, 0>> THEN r
    ELSE [iops |-> Append(r.iops, t[1]), lat |-> Append(r.lat, t[2]),
          bw |-> Append(r.bw, t[3])]

AppendTrial(r, t) ==
    [iops |-> Append(r.iops, t[1]), lat |-> Append(r.lat, t[2]),
     bw |-> Append(r.bw, t[3])]

\* Whether the iteration reaches its time.sleep(2).  disk_stress_test.py
\* sleeps at the end of its try block, which the handler of a failed
\* invocation is entered without reaching; the other two scripts sleep after
\* execute_fio_run has returned, whatever it returned.
Pauses(v, proc) == v # "disk" \/ proc.returncode = 0

\* One iteration of "for run in range(1, self.runs + 1)": drop_caches, run
\* the tool, extract, append, time.sleep(2).  OSError from subprocess.run
\* (command not found) and, in the refactored script, ValueError from the
\* extractor are not subprocess.SubprocessError and leave run_test uncaught.
execute_fio_run(s) ==
    /\ pc[s] = "trial"
    /\ run[s] < repeat
    /\ fio_calls' = [fio_calls EXCEPT ![s] = @ + 1]
    /\ \E proc \in ProcOutcomes :
         IF ~proc.launched
         THEN Ends(s, "crashed", "subprocess.run: OSError")
         ELSE LET t == TrialEntries(variant, proc)
              IN  IF t.exc
                  THEN Ends(s, "crashed", "extract_metrics: ValueError")
                  ELSE /\ results' = [results EXCEPT ![s] = AppendTrial(@, t.val)]
                       /\ run' = [run EXCEPT ![s] = @ + 1]
                       /\ slept' = [slept EXCEPT ![s] = Pauses(variant, proc)]
                       /\ UNCHANGED <<pc, test_i, geomean_results, prev_metrics,
                                      db_error, shown, unclosed, ended_by>>
    /\ UNCHANGED <<config, call, parsed, store, run_id, lookups, inserted, reported>>

\* The entries of list at the trials where every list has a positive entry.
CompleteTrials(r, list) ==
    LET keep == {i \in DOMAIN list : r.iops[i] > 0 /\ r.lat[i] > 0 /\ r.bw[i] > 0}
        pick[i \in 0..Len(list)] ==
            IF i = 0 THEN <<>>
            ELSE IF i \in keep THEN Append(pick[i - 1], list[i]) ELSE pick[i - 1]
    IN  pick[Len(list)]

\* aggregate over the trials that yielded all three metrics.
aggregate_complete_trials(s) ==
    /\ pc[s] = "trial"
    /\ run[s] >= repeat
    /\ geomean_results' = [geomean_results EXCEPT ![s] =
                             <<calculate_geomean(CompleteTrials(results[s], results[s].iops)),
                               calculate_geomean(CompleteTrials(results[s], results[s].lat)),
                               calculate_geomean(CompleteTrials(results[s], results[s].bw))>>]
    /\ Goto(s, "save_results")
    /\ UNCHANGED <<config, call, parsed, store, run_id, test_i, run, results, prev_metrics,
                   db_error, shown, slept, unclosed, ended_by, history>>

\* aggregate leaving the loop after its first iteration.
aggregate_after_first_trial(s) ==
    /\ pc[s] = "trial"
    /\ run[s] >= Min(1, repeat)
    /\ geomean_results' = [geomean_results EXCEPT ![s] =
                             <<calculate_geomean(results[s].iops),
                               calculate_geomean(results[s].lat),
                               calculate_geomean(results[s].bw)>>]
    /\ Goto(s, "save_results")
    /\ UNCHANGED <<config, call, parsed, store, run_id, test_i, run, results, prev_metrics,
                   db_error, shown, slept, unclosed, ended_by, history>>

\* After the loop: the geometric mean of each list on its own.
aggregate(s) ==
    /\ pc[s] = "trial"
    /\ run[s] >= repeat
    /\ geomean_results' = [geomean_results EXCEPT ![s] =
                             <<calculate_geomean(results[s].iops),
                               calculate_geomean(results[s].lat),
                               calculate_geomean(results[s].bw)>>]
    /\ Goto(s, "save_results")
    /\ UNCHANGED <<config, call, parsed, store, run_id, test_i, run, results, prev_metrics,
                   db_error, shown, slept, unclosed, ended_by, history>>

\* save_results whose handler ends the session, as save_run_metadata's does.
save_results_exits(s) ==
    /\ pc[s] = "save_results"
    /\ \E ok \in BOOLEAN :
         IF ok
         THEN /\ test_results' =
                   Append(test_results,
                          ResultRow(run_id[s], Tests(variant)[test_i[s]],
                                    geomean_results[s][1], geomean_results[s][2],
                                    geomean_results[s][3]))
              /\ inserted' = [inserted EXCEPT ![s] = @ + 1]
              /\ db_error' = [db_error EXCEPT ![s] = FALSE]
              /\ Goto(s, "get_previous_results")
              /\ UNCHANGED <<test_i, run, results, geomean_results, prev_metrics,
                             shown, slept, unclosed, ended_by>>
         ELSE /\ Ends(s, "exited", "save_results")
              /\ UNCHANGED <<test_results, inserted>>
    /\ UNCHANGED <<config, call, parsed, sqlite_sequence, test_runs, run_id, fio_calls, lookups,
                   reported>>

\* save_results that leaves out a workload whose aggregate is all zero.
save_results_skips_zero(s) ==
    /\ pc[s] = "save_results"
    /\ \E ok \in BOOLEAN :
         LET written == ok /\ geomean_results[s] # <<0, 0, 0>>
         IN  /\ test_results' =
                  IF written
                  THEN Append(test_results,
                              ResultRow(run_id[s], Tests(variant)[test_i[s]],
                                        geomean_results[s][1], geomean_results[s][2],
                                        geomean_results[s][3]))
                  ELSE test_results
             /\ inserted' = [inserted EXCEPT ![s] = IF written THEN @ + 1 ELSE @]
             /\ db_error' = [db_error EXCEPT ![s] = ~ok]
             /\ \E left_open \in BOOLEAN :
                    unclosed' = [unclosed EXCEPT ![s] = @ \/ (~ok /\ left_open)]
    /\ Goto(s, "get_previous_results")
    /\ UNCHANGED <<config, call, parsed, sqlite_sequence, test_runs, run_id, test_i,
                   run, results, geomean_results, prev_metrics, shown, slept,
                   ended_by, fio_calls, lookups, reported>>

\* save_results as INSERT OR REPLACE keyed by the workload name: the rows
\* earlier runs hold for the name are replaced.
save_results_replaces(s) ==
    /\ pc[s] = "save_results"
    /\ \E ok \in BOOLEAN :
         /\ test_results' =
              IF ok
              THEN Append(SelectSeq(test_results,
                                    LAMBDA r : r.test_name # Tests(variant)[test_i[s]]),
                          ResultRow(run_id[s], Tests(variant)[test_i[s]],
                                    geomean_results[s][1], geomean_results[s][2],
                                    geomean_results[s][3]))
              ELSE test_results
         /\ inserted' = [inserted EXCEPT ![s] = IF ok THEN @ + 1 ELSE @]
         /\ db_error' = [db_error EXCEPT ![s] = ~ok]
         /\ \E left_open \in BOOLEAN :
                unclosed' = [unclosed EXCEPT ![s] = @ \/ (~ok /\ left_open)]
    /\ Goto(s, "get_previous_results")
    /\ UNCHANGED <<config, call, parsed, sqlite_sequence, test_runs, run_id, test_i,
                   run, results, geomean_results, prev_metrics, shown, slept,
                   ended_by, fio_calls, lookups, reported>>

\* save_results / save_test_results: one INSERT INTO test_results and a
\* commit; sqlite3.Error is printed as a warning and nothing is inserted.
save_results(s) ==
    /\ pc[s] = "save_results"
    /\ \E ok \in BOOLEAN :
         /\ test_results' =
              IF ok
              THEN Append(test_results,
                          ResultRow(run_id[s], Tests(variant)[test_i[s]],
                                    geomean_results[s][1], geomean_results[s][2],
                                    geomean_results[s][3]))
              ELSE test_results
         /\ inserted' = [inserted EXCEPT ![s] = IF ok THEN @ + 1 ELSE @]
         /\ db_error' = [db_error EXCEPT ![s] = ~ok]
         /\ \E left_open \in BOOLEAN :
                unclosed' = [unclosed EXCEPT ![s] = @ \/ (~ok /\ left_open)]
    /\ Goto(s, "get_previous_results")
    /\ UNCHANGED <<config, call, parsed, sqlite_sequence, test_runs, run_id, test_i,
                   run, results, geomean_results, prev_metrics, shown, slept,
                   ended_by, fio_calls, lookups, reported>>

\* get_previous_results: the row fetchone() returns, (None, None, None) when
\* there is none or when sqlite3.Error is caught.
get_previous_results(s) ==
    /\ pc[s] = "get_previous_results"
    /\ \E ok \in BOOLEAN :
         /\ db_error' = [db_error EXCEPT ![s] = ~ok]
         /\ \E left_open \in BOOLEAN :
                unclosed' = [unclosed EXCEPT ![s] = @ \/ (~ok /\ left_open)]
         /\ LET rows == FirstRows(Tests(variant)[test_i[s]], run_id[s])
            IN  IF ok /\ rows # {}
                THEN \E row \in rows :
                       prev_metrics' = [prev_metrics EXCEPT ![s] =
                           <<row.iops, row.latency_ms, row.bandwidth_kbs>>]
                ELSE prev_metrics' = [prev_metrics EXCEPT ![s] = NoPrevious]
    /\ lookups' = [lookups EXCEPT ![s] = @ + 1]
    /\ Goto(s, "display_results")
    /\ UNCHANGED <<config, call, parsed, store, run_id, test_i, run, results,
                   geomean_results, shown, slept, ended_by, fio_calls, inserted,
                   reported>>

\* display_results and the end of run_test; the loop of run_all_tests then
\* takes the next workload.
display_results(s) ==
    /\ pc[s] = "display_results"
    /\ reported' = [reported EXCEPT ![s] = Append(@, Tests(variant)[test_i[s]])]
    /\ shown' = [shown EXCEPT ![s] = Changes(geomean_results[s], prev_metrics[s])]
    /\ IF test_i[s] < Len(Tests(variant))
       THEN /\ test_i' = [test_i EXCEPT ![s] = @ + 1]
            /\ Goto(s, "run_test")
       ELSE /\ Goto(s, "cleanup")
            /\ UNCHANGED test_i
    /\ UNCHANGED <<config, call, parsed, store, run_id, run, results, geomean_results,
                   prev_metrics, db_error, slept, unclosed, ended_by, fio_calls,
                   lookups, inserted>>

\* The end of run_all_tests and of run: remove the file, sync, final summary.
cleanup(s) ==
    /\ pc[s] = "cleanup"
    /\ Ends(s, "finished", "")
    /\ UNCHANGED <<config, call, parsed, store, run_id, history>>

Step(s) ==
    \/ main(s)
    \/ init_database(s)
    \/ save_run_metadata(s)
    \/ get_storage_info(s)
    \/ run_all_tests(s)
    \/ run_test(s)
    \/ execute_fio_run(s)
    \/ aggregate(s)
    \/ save_results(s)
    \/ get_previous_results(s)
    \/ display_results(s)
    \/ cleanup(s)

Next == \E s \in Sessions : Start(s) \/ run_entry(s) \/ Step(s)

Spec == Init /\ [][Next]_vars

\* ------------------------------------------ two runs of disk_stress_test.py
\* disk_stress_test.py run twice with its default of three trials per
\* workload, on a machine where the tool reports 1000 or 1200 operations per
\* second, or fails.
DefaultRepeat == 3

InitTwoRuns ==
    /\ variant = "disk"
    /\ repeat = DefaultRepeat
    /\ stdouts = {Out1000, Out1200}
    /\ Fresh

NextTwoRuns == \E s \in {1, 2} : Start(s) \/ Step(s)

SpecTwoRuns == InitTwoRuns /\ [][NextTwoRuns]_vars

\* ------------------------------------------- two sessions at the same time
\* Two sessions of disk_stress_test.py or fs_stress_test.py started against
\* one store without waiting for each other, one trial per workload.  Every
\* storage call is one transaction on a connection of its own, which SQLite
\* serializes with those of the other process; a call that finds the
\* database locked for longer than the timeout fails with sqlite3.Error.
Launch(s) ==
    /\ pc[s] = "NotStarted"
    /\ Goto(s, "main")
    /\ UNCHANGED <<config, call, parsed, store, run_id, frame, ended_by, history>>

InitInterleaved ==
    /\ variant \in {"disk", "fs"}
    /\ repeat = 1
    /\ stdouts = {OutGood, Out1000}
    /\ Fresh

NextInterleaved == \E s \in {1, 2} : Launch(s) \/ Step(s)

SpecInterleaved == InitInterleaved /\ [][NextInterleaved]_vars

\* ------------------------------------------------- functions on their own
\* The functions of the scripts that read no state, applied to arguments
\* drawn from bounded sets; no session runs meanwhile.
sessions_state == <<config, store, pc, run_id, frame, ended_by, history>>

Applied(fn, args, ret) ==
    /\ call' = [fn |-> fn, args |-> args, ret |-> ret]
    /\ UNCHANGED <<parsed, sessions_state>>

\* Trial values: None, 0.0, 50.0, 100.0, 200.0.
TrialValues == {None, 0, 50000, 100000, 200000}
TrialLists == UNION {[1..n -> TrialValues] : n \in 0..MaxTrials}

apply_calculate_geomean ==
    \E values \in TrialLists :
        Applied("calculate_geomean", <<values>>, calculate_geomean(values))

\* Aggregates: 0.0, 8.0, 10.0, 100.0, 120.0, 1095.445, 1200.0, 1200.001.
Aggregates == {0, 8000, 10000, 100000, 120000, 1095445, 1200000, 1200001}

apply_calc_percentage_change ==
    \E current \in Aggregates, previous \in Aggregates \cup {None},
       is_latency \in BOOLEAN :
        Applied("calc_percentage_change", <<current, previous, is_latency>>,
                calc_percentage_change(current, previous, is_latency))

\* One trial on its own (TestRunner.execute_fio_run is a static method): the
\* triple returned, or the exception that leaves the function.
fio_run(v, proc) == IF ~proc.launched THEN Raise ELSE TrialEntries(v, proc)

RunOutcomes ==
    [launched : BOOLEAN, returncode : {0, 1},
     stdout : {OutGood, OutPartial, Out1000, Out1200}]

apply_execute_fio_run ==
    \E v \in Variants, proc \in RunOutcomes :
        Applied("execute_fio_run", <<v, proc>>, fio_run(v, proc))

\* Numbers before a suffix: 1 and 2, 0.001 before the largest suffix, and
\* 1024 and 2048 where there is none.
Numbers(unit) ==
    IF unit \in {"g", "G"} THEN {1}
    ELSE IF unit = "" THEN {1024000, 2048000}
    ELSE {1000, 2000}

Letters == {"", "k", "K", "m", "M", "g", "G", "x"}

\* The unit converter of each script on a number and the text of the suffix
\* group: _convert_units lowers the suffix itself, the refactored
\* convert_units takes it as it is given.
converter(v, val, unit, binary) ==
    MetricExtractor_convert_units(val, IF v = "ref" THEN unit ELSE Lower(unit), binary)

apply_convert_units ==
    \E v \in Variants, unit \in Letters, binary \in BOOLEAN :
        \E val \in Numbers(unit) :
            Applied("convert_units", <<v, val, unit, binary>>,
                    converter(v, val, unit, binary))

\* Throughput tokens "iops=<n><letter>" and "IOPS=<n><letter>".
IopsTokens ==
    UNION {{Tok(key, num, TRUE, unit, "") : num \in Numbers(unit)} :
           key \in {"iops", "IOPS"}, unit \in Letters \ {"x"}}

apply_extract_iops ==
    \E v \in Variants, tok \in IopsTokens :
        Applied("extract_iops", <<v, tok>>,
                extract_iops(v, [iops |-> tok, lat |-> NoTok, bw |-> NoTok]))

\* Bandwidth tokens "bw=<n><letter>iB/s", "bw=<n><letter>B/s" and the same
\* after "BW=".
BandwidthTokens ==
    UNION {{Tok(key, num, TRUE, unit, tail) : num \in Numbers(unit)} :
           key \in {"bw", "BW"}, unit \in Letters \ {"x"}, tail \in {"iB/s", "B/s"}}

apply_extract_bandwidth ==
    \E v \in Variants, tok \in BandwidthTokens :
        Applied("extract_bandwidth", <<v, tok>>,
                extract_bandwidth(v, [iops |-> NoTok, lat |-> NoTok, bw |-> tok]))

\* The three extractions of one trial applied to a captured report.  The
\* extractors are functions of the text: they read no attribute of the tester
\* or of the class and assign none.  The first report extracted is kept, with
\* whether another one has been extracted since.
apply_extract_metrics ==
    \E v \in Variants, out \in {OutGood, OutPartial, Out1000, Out1200} :
        LET ret == extract_metrics(v, out)
        IN  /\ call' = [fn |-> "extract_metrics", args |-> <<v, out>>, ret |-> ret]
            /\ parsed' = IF parsed = NoneParsed
                          THEN [args |-> <<v, out>>, ret |-> ret, others |-> FALSE]
                          ELSE [parsed EXCEPT !.others = @ \/ parsed.args # <<v, out>>]
            /\ UNCHANGED sessions_state

NextFunctions ==
    \/ apply_calculate_geomean
    \/ apply_calc_percentage_change
    \/ apply_execute_fio_run
    \/ apply_convert_units
    \/ apply_extract_iops
    \/ apply_extract_bandwidth

SpecFunctions == Init /\ [][NextFunctions]_vars

\* The extractors applied over and over, to whole reports and to single
\* tokens.
NextExtractions ==
    \/ apply_extract_metrics
    \/ apply_extract_iops
    \/ apply_extract_bandwidth

SpecExtractions == Init /\ [][NextExtractions]_vars

\* ================================================================ claims
\* The workload a session is running.
CurrentTest(s) == Tests(variant)[test_i[s]]

Triple(row) == <<row.iops, row.latency_ms, row.bandwidth_kbs>>

\* The result rows for a workload name that belong to runs before rid.
Earlier(name, rid) ==
    {i \in DOMAIN test_results :
        test_results[i].test_name = name /\ test_results[i].run_id < rid}

\* i is the row of Earlier(name, rid) with the greatest run id.
Nearest(i, name, rid) ==
    /\ i \in Earlier(name, rid)
    /\ \A j \in Earlier(name, rid) : test_results[j].run_id <= test_results[i].run_id

\* A session that has just made its lookup for the workload it is running.
LookedUp(s) == pc[s] = "display_results"

\* C1 as stated: the lookup made in run r returns the triple of the row for
\* the name with the greatest run id below r, and (None, None, None) exactly
\* when no row for the name has a run id below r.
C1_AsStated ==
    \A s \in Sessions : LookedUp(s) =>
        LET E == Earlier(CurrentTest(s), run_id[s])
        IN  /\ (prev_metrics[s] = NoPrevious) <=> (E = {})
            /\ E # {} => \E i \in E : /\ Nearest(i, CurrentTest(s), run_id[s])
                                      /\ prev_metrics[s] = Triple(test_results[i])

\* C1, amended: the lookup made in run r returns the triple of the row for the
\* name with the greatest run id below r, and (None, None, None) exactly when
\* no row for the name has a run id below r or the lookup itself failed with a
\* storage error.
C1_PreviousIsGreatestEarlier ==
    \A s \in Sessions : LookedUp(s) =>
        LET E == Earlier(CurrentTest(s), run_id[s])
        IN  /\ (prev_metrics[s] = NoPrevious) <=> (E = {} \/ db_error[s])
            /\ (E # {} /\ ~db_error[s]) =>
                 \E i \in E : /\ Nearest(i, CurrentTest(s), run_id[s])
                              /\ prev_metrics[s] = Triple(test_results[i])

\* A lookup that had two earlier rows with different triples to choose from
\* and returned the one of the later run.
C1_Witness ==
    \E s \in Sessions :
        /\ LookedUp(s) /\ ~db_error[s]
        /\ \E i, j \in Earlier(CurrentTest(s), run_id[s]) :
             /\ test_results[i].run_id < test_results[j].run_id
             /\ Triple(test_results[i]) # Triple(test_results[j])
             /\ Nearest(j, CurrentTest(s), run_id[s])
             /\ prev_metrics[s] = Triple(test_results[j])

\* A session whose save_results has just returned.
Saved(s) == pc[s] = "get_previous_results"

\* The rows of a run for a workload name.
RowsOf(rid, name) ==
    {i \in DOMAIN test_results :
        test_results[i].run_id = rid /\ test_results[i].test_name = name}

\* The last row of the table is the aggregate of s, metric by metric.
LastRowIsAggregateOf(s) ==
    /\ test_results # <<>>
    /\ LET row == test_results[Len(test_results)]
       IN  /\ row.run_id = run_id[s]
           /\ row.test_name = CurrentTest(s)
           /\ row.iops = geomean_results[s][1]
           /\ row.latency_ms = geomean_results[s][2]
           /\ row.bandwidth_kbs = geomean_results[s][3]

\* i is a row for the name from a run before rid with no row for the name in
\* a run between.
LastBefore(i, name, rid) ==
    /\ i \in Earlier(name, rid)
    /\ ~\E j \in Earlier(name, rid) : test_results[j].run_id > test_results[i].run_id

\* The parts of the round trip that do not depend on the lookup succeeding: a
\* successful save stores the aggregated triple unchanged, and a lookup never
\* returns a row of the looking run itself or of a later one.
RoundTripSaveSide ==
    \A s \in Sessions :
        /\ (Saved(s) /\ ~db_error[s]) => LastRowIsAggregateOf(s)
        /\ (LookedUp(s) /\ Earlier(CurrentTest(s), run_id[s]) = {}) =>
              prev_metrics[s] = NoPrevious

\* C2 as stated: the row saved in run r is returned, with the same three
\* values, by every lookup for the name made in the next run that looks.
C2_AsStated ==
    /\ RoundTripSaveSide
    /\ \A s \in Sessions : LookedUp(s) =>
          \A i \in DOMAIN test_results :
              LastBefore(i, CurrentTest(s), run_id[s]) =>
                  prev_metrics[s] = Triple(test_results[i])

\* C2, amended: the row saved in run r is returned, with the same three
\* values, by the lookup for the name made in a later run with no row for the
\* name in between, provided that lookup does not fail with a storage error (a
\* failed lookup returns absent); a lookup made in run r itself does not return
\* the row, and returns absent when r holds the only row for the name.
C2_RoundTrip ==
    /\ RoundTripSaveSide
    /\ \A s \in Sessions : (LookedUp(s) /\ ~db_error[s]) =>
          \A i \in DOMAIN test_results :
              LastBefore(i, CurrentTest(s), run_id[s]) =>
                  prev_metrics[s] = Triple(test_results[i])

\* A lookup returned the triple of the previous run's row while the table
\* already held the different row of the looking run itself.
C2_Witness ==
    \E s \in Sessions :
        /\ LookedUp(s) /\ ~db_error[s]
        /\ \E i \in DOMAIN test_results, k \in RowsOf(run_id[s], CurrentTest(s)) :
             /\ LastBefore(i, CurrentTest(s), run_id[s])
             /\ Triple(test_results[i]) # Triple(test_results[k])
             /\ test_results[i].latency_ms # test_results[i].bandwidth_kbs
             /\ prev_metrics[s] = Triple(test_results[i])

\* The session's run row has been committed.
Created(s) == run_id[s] # None /\ ended_by[s] # "save_run_metadata"

\* C3: a trial whose tool invocation fails, by a non-zero exit or because the
\* tool cannot be launched, contributes 0 to every list and the runner goes on
\* with the next trial; no session is ended by a failed trial.
C3_FailedTrialIsNotFatal ==
    \A s \in Sessions :
        /\ ended_by[s] # "subprocess.run: OSError"
        /\ pc[s] = "trial" => /\ Len(results[s].iops) = run[s]
                              /\ Len(results[s].lat) = run[s]
                              /\ Len(results[s].bw) = run[s]
                              /\ fio_calls[s] = (test_i[s] - 1) * repeat + run[s]

\* C4: a session whose run creation failed with a storage error has exited
\* and has made no tool invocation, inserted no result row, made no
\* previous-result lookup and reported nothing.
C4_RunCreationFailureAborts ==
    \A s \in Sessions : ended_by[s] = "save_run_metadata" =>
        /\ pc[s] = "exited"
        /\ fio_calls[s] = 0
        /\ inserted[s] = 0
        /\ lookups[s] = 0
        /\ reported[s] = <<>>

\* A session aborted at run creation although the store had served an earlier
\* session, whose rows it never looked up.
C4_Witness ==
    \E s \in Sessions :
        /\ ended_by[s] = "save_run_metadata" /\ pc[s] = "exited"
        /\ test_results # <<>>

\* The workloads a live session has behind it.
Behind(s) == SubSeq(Tests(variant), 1, test_i[s] - 1)

\* C5: a storage failure of save_results or get_previous_results does not end
\* the session: after a failed save the session is at its lookup and the run
\* has no row for the workload; after a failed lookup it is at the report with
\* no previous data; every workload behind a live session has been reported,
\* and a session that reaches the end has reported them all; only
\* init_database and save_run_metadata make a session exit, and no session is
\* ended by save_results or get_previous_results.
C5_StorageFailureIsNotFatal ==
    \A s \in Sessions :
        /\ (Saved(s) /\ db_error[s]) => RowsOf(run_id[s], CurrentTest(s)) = {}
        /\ (LookedUp(s) /\ db_error[s]) => prev_metrics[s] = NoPrevious
        /\ pc[s] \in {"run_test", "trial", "save_results", "get_previous_results",
                      "display_results"} => reported[s] = Behind(s)
        /\ pc[s] \in {"cleanup", "finished"} => reported[s] = Tests(variant)
        /\ pc[s] = "exited" => ended_by[s] \in {"init_database", "save_run_metadata"}
        /\ ended_by[s] \notin {"save_results", "get_previous_results"}
        /\ inserted[s] <= Len(reported[s]) + 1

\* A later session's lookup returned an older row for a workload that a
\* finished session in between had reported without being able to save it.
C5_Witness ==
    \E s, t \in Sessions :
        /\ t < s /\ pc[t] = "finished" /\ Created(t)
        /\ reported[t] = Tests(variant)
        /\ LookedUp(s) /\ ~db_error[s]
        /\ RowsOf(run_id[t], CurrentTest(s)) = {}
        /\ prev_metrics[s] # NoPrevious

\* C6: with a configuration of zero trials per workload no session invokes
\* the tool, inserts a result row or completes.
C6_ZeroTrialsIsFatal ==
    repeat < 1 =>
        \A s \in Sessions : fio_calls[s] = 0 /\ inserted[s] = 0 /\ pc[s] # "finished"

\* No trial of the workload yielded a strictly positive value of any metric.
AllTrialsFailed(s) ==
    /\ \A i \in DOMAIN results[s].iops : results[s].iops[i] <= 0
    /\ \A i \in DOMAIN results[s].lat : results[s].lat[i] <= 0
    /\ \A i \in DOMAIN results[s].bw : results[s].bw[i] <= 0

ZeroRowOf(s) ==
    [run_id |-> run_id[s], test_name |-> CurrentTest(s), iops |-> 0,
     latency_ms |-> 0, bandwidth_kbs |-> 0]

\* C7 as stated: when save_results returns for a workload all of whose trials
\* failed, the run holds exactly one row for it, with three zero metrics.
C7_AsStated ==
    \A s \in Sessions : (Saved(s) /\ AllTrialsFailed(s)) =>
        /\ Cardinality(RowsOf(run_id[s], CurrentTest(s))) = 1
        /\ test_results[Len(test_results)] = ZeroRowOf(s)

\* C7, amended: a workload all of whose trials failed is aggregated to three
\* zeros and handed to save_results like any other; when the insert succeeds
\* the run holds exactly one row for it, with three zero metrics, and when the
\* insert fails with a storage error it holds none.
C7_AllFailedIsRecorded ==
    \A s \in Sessions : (Saved(s) /\ AllTrialsFailed(s)) =>
        /\ geomean_results[s] = <<0, 0, 0>>
        /\ IF db_error[s]
           THEN RowsOf(run_id[s], CurrentTest(s)) = {}
           ELSE /\ Cardinality(RowsOf(run_id[s], CurrentTest(s))) = 1
                /\ test_results[Len(test_results)] = ZeroRowOf(s)

\* Two trials were run, both failed, and the zero row is in the table.
C7_Witness ==
    \E s \in Sessions :
        /\ Saved(s) /\ AllTrialsFailed(s) /\ ~db_error[s]
        /\ Len(results[s].iops) >= 2
        /\ test_results[Len(test_results)] = ZeroRowOf(s)

\* C8: a session whose run record was created and which has ended, ended
\* normally, having reported every workload of its list.
C8_EveryWorkloadIsReported ==
    \A s \in Sessions : (Created(s) /\ pc[s] \in Terminal) =>
        /\ pc[s] = "finished"
        /\ reported[s] = Tests(variant)

\* C9: the step that creates a session's run assigns an id greater than every
\* id of the table and than the id of every other session that has created a
\* run, and a session's id never changes once its run is created.
C9_RunIdsIncrease ==
    [][\A s \in Sessions :
          /\ Created(s) => run_id'[s] = run_id[s]
          /\ (~Created(s) /\ Created(s)') =>
                /\ run_id'[s] \in test_runs'
                /\ \A id \in test_runs : id < run_id'[s]
                /\ \A t \in Sessions \ {s} : Created(t) => run_id[t] < run_id'[s]
      ]_vars

\* Two sessions have created runs, the later with the greater id, after a
\* session whose run creation failed.
C9_Witness ==
    \E s, t, u \in Sessions :
        /\ s < t /\ Created(s) /\ Created(t) /\ run_id[s] < run_id[t]
        /\ ended_by[u] = "save_run_metadata"

\* The runs before rid, and those of them that hold a row for the name.
RunsBefore(rid) == {r \in test_runs : r < rid}
RunsWith(name, rid) == {r \in RunsBefore(rid) : RowsOf(r, name) # {}}

IsGreatest(r, S) == r \in S /\ \A q \in S : q <= r

\* C10 as stated: a lookup that does not fail returns the row of the run just
\* before the looking run, and absent when that run holds no row for the name.
C10_AsStated ==
    \A s \in Sessions : (LookedUp(s) /\ ~db_error[s]) =>
        IF \E r \in RunsBefore(run_id[s]) :
               IsGreatest(r, RunsBefore(run_id[s])) /\ RowsOf(r, CurrentTest(s)) # {}
        THEN \E r \in RunsBefore(run_id[s]) :
               /\ IsGreatest(r, RunsBefore(run_id[s]))
               /\ \E i \in RowsOf(r, CurrentTest(s)) :
                      prev_metrics[s] = Triple(test_results[i])
        ELSE prev_metrics[s] = NoPrevious

\* C10, amended: a lookup that does not fail returns the row of the nearest
\* preceding run that holds a row for the name, however many runs without one
\* lie between, and absent only when no preceding run holds a row for it.
C10_PreviousFromNearestRunWithRow ==
    \A s \in Sessions : (LookedUp(s) /\ ~db_error[s]) =>
        IF RunsWith(CurrentTest(s), run_id[s]) = {}
        THEN prev_metrics[s] = NoPrevious
        ELSE \E r \in RunsWith(CurrentTest(s), run_id[s]) :
               /\ IsGreatest(r, RunsWith(CurrentTest(s), run_id[s]))
               /\ \E i \in RowsOf(r, CurrentTest(s)) :
                      prev_metrics[s] = Triple(test_results[i])

\* The run just before the looking run holds no row for the name and the
\* lookup returned the row of an older run.
C10_Witness ==
    \E s \in Sessions :
        /\ LookedUp(s) /\ ~db_error[s]
        /\ \E r \in RunsBefore(run_id[s]) :
              /\ IsGreatest(r, RunsBefore(run_id[s]))
              /\ RowsOf(r, CurrentTest(s)) = {}
        /\ prev_metrics[s] # NoPrevious

\* The strictly positive entries of a list of trial values.
Positive(values) == SelectSeq(values, LAMBDA x : x > 0)

\* r is the geometric mean of the positive values s to the last digit held:
\* r^n <= product of s < (r + 1)^n.
IsGeomeanOf(r, s) ==
    /\ ~BigLess(Product(s), Power(r, Len(s)))
    /\ BigLess(Product(s), Power(r + 1, Len(s)))

\* C11: the aggregate of a list of trial values is the geometric mean of its
\* strictly positive entries and 0.0 when it has none; [100,100,100] gives
\* 100.0, [0,0,0] and [] give 0.0, [50,0,200] gives 100.0.
C11_GeomeanOfPositive ==
    call.fn = "calculate_geomean" =>
        LET values == call.args[1]
        IN  /\ Positive(values) = <<>> => call.ret = 0
            /\ Positive(values) # <<>> => IsGeomeanOf(call.ret, Positive(values))
            /\ values = <<100000, 100000, 100000>> => call.ret = 100000
            /\ values \in {<<0, 0, 0>>, <<>>} => call.ret = 0
            /\ values = <<50000, 0, 200000>> => call.ret = 100000

\* [50, 0, 200] has been aggregated to 100.0.
C11_Witness ==
    /\ call.fn = "calculate_geomean"
    /\ call.args = <<(<<50000, 0, 200000>>)>>
    /\ call.ret = 100000

LastRow == test_results[Len(test_results)]

\* C12: every metric of every row of test_results is non-negative, and a
\* metric of the row a workload has just saved is 0.0 exactly when no trial
\* of the workload contributed a strictly positive value for it.
C12_ZeroMeansNoValidTrial ==
    /\ \A i \in DOMAIN test_results :
          /\ test_results[i].iops >= 0
          /\ test_results[i].latency_ms >= 0
          /\ test_results[i].bandwidth_kbs >= 0
    /\ \A s \in Sessions : (Saved(s) /\ ~db_error[s]) =>
          /\ LastRow.iops = 0 <=> Positive(results[s].iops) = <<>>
          /\ LastRow.latency_ms = 0 <=> Positive(results[s].lat) = <<>>
          /\ LastRow.bandwidth_kbs = 0 <=> Positive(results[s].bw) = <<>>

\* A saved row with no throughput but a positive bandwidth, aggregated from
\* trials one of which contributed no bandwidth.
C12_Witness ==
    \E s \in Sessions :
        /\ Saved(s) /\ ~db_error[s]
        /\ LastRow.iops = 0 /\ LastRow.bandwidth_kbs > 0
        /\ \E i \in DOMAIN results[s].bw : results[s].bw[i] = 0

\* h hundredths of a percent is distance / previous * 100 to two decimals:
\* (2h - 1) * previous <= 2 * distance * 10000 < (2h + 1) * previous.
IsPercentOf(h, distance, previous) ==
    LET twice == BigTimes(Big(2 * distance), 10000)
    IN  /\ h > 0 => ~BigLess(twice, BigTimes(Big(2 * h - 1), previous))
        /\ BigLess(twice, BigTimes(Big(2 * h + 1), previous))

\* C13: the change of a metric is "N/A" exactly when previous is absent or
\* zero; otherwise it is (current - previous) / previous * 100 to two
\* decimals, negative exactly when current is below previous, an improvement
\* when negative for latency and when positive for throughput and bandwidth;
\* (120, 100, throughput) is an improvement +20.00%, (8, 10, latency) an
\* improvement -20.00%.
C13_TrendSignLaw ==
    call.fn = "calc_percentage_change" =>
        LET current == call.args[1]
            previous == call.args[2]
            is_latency == call.args[3]
            r == call.ret
        IN  /\ r.na <=> (previous = None \/ previous = 0)
            /\ ~r.na =>
                 /\ r.sign = "-" <=> current < previous
                 /\ IsPercentOf(r.hundredths,
                                IF current < previous THEN previous - current
                                ELSE current - previous, previous)
                 /\ current < previous => (r.colour = "GREEN" <=> is_latency)
                 /\ current > previous => (r.colour = "GREEN" <=> ~is_latency)
            /\ call.args = <<120000, 100000, FALSE>> =>
                 r = [na |-> FALSE, colour |-> "GREEN", sign |-> "+", hundredths |-> 2000]
            /\ call.args = <<8000, 10000, TRUE>> =>
                 r = [na |-> FALSE, colour |-> "GREEN", sign |-> "-", hundredths |-> 2000]

\* Latency 8 against 10 has been reported as an improvement of -20.00%.
C13_Witness ==
    /\ call.fn = "calc_percentage_change"
    /\ call.args = <<8000, 10000, TRUE>>
    /\ call.ret.colour = "GREEN" /\ call.ret.sign = "-" /\ call.ret.hundredths = 2000

\* display_results has just printed a comparison for the session.
Compared(s) == pc[s] \in {"run_test", "cleanup"} /\ shown[s] # <<>>

RandomWriteTrials(s) ==
    /\ test_i[s] = 1 /\ Tests(variant)[1] = "Random Write"
    /\ results[s].iops = <<1000000, 0, 1200000>>

\* C14 as stated: trials [1000, 0, 1200] of "Random Write" aggregate to a
\* throughput of 1095.45, which is the row's; a later session whose aggregate
\* is 1200 reports, against 1095.45, an improvement of +9.56%.
C14_AsStated ==
    \A s \in Sessions :
        /\ (pc[s] = "save_results" /\ RandomWriteTrials(s)) =>
              Rounded(geomean_results[s][1], 10, 0) = 109545
        /\ (Saved(s) /\ ~db_error[s] /\ RandomWriteTrials(s)) =>
              LastRow.iops = geomean_results[s][1]
        /\ (Compared(s) /\ geomean_results[s][1] = 1200000
              /\ Rounded(prev_metrics[s][1], 10, 0) = 109545) =>
              shown[s][1] = [na |-> FALSE, colour |-> "GREEN", sign |-> "+",
                             hundredths |-> 956]

\* C14, amended: trials [1000, 0, 1200] of "Random Write" aggregate to a
\* throughput of 1095.45, which is the row's; a later session whose aggregate
\* is 1200 reports, against 1095.45, an improvement of +9.54%.
C14_EndToEnd ==
    \A s \in Sessions :
        /\ (pc[s] = "save_results" /\ RandomWriteTrials(s)) =>
              Rounded(geomean_results[s][1], 10, 0) = 109545
        /\ (Saved(s) /\ ~db_error[s] /\ RandomWriteTrials(s)) =>
              LastRow.iops = geomean_results[s][1]
        /\ (Compared(s) /\ geomean_results[s][1] = 1200000
              /\ Rounded(prev_metrics[s][1], 10, 0) = 109545) =>
              shown[s][1] = [na |-> FALSE, colour |-> "GREEN", sign |-> "+",
                             hundredths |-> 954]

\* The second session has reported +9.54% for "Random Write" with an
\* aggregate of 1200 against the 1095.45 of the first run's row.
C14_Witness ==
    /\ Compared(2) /\ reported[2] = <<"Random Write">>
    /\ geomean_results[2][1] = 1200000
    /\ \E i \in DOMAIN test_results :
          /\ test_results[i].run_id = run_id[1]
          /\ test_results[i].test_name = "Random Write"
          /\ prev_metrics[2][1] = test_results[i].iops
          /\ Rounded(test_results[i].iops, 10, 0) = 109545
    /\ shown[2][1].sign = "+" /\ shown[2][1].hundredths = 954

\* The tool ran to a zero exit in the trial applied on its own.
TrialRan == call.fn = "execute_fio_run" /\ call.args[2].launched
            /\ call.args[2].returncode = 0

\* C15: a trial whose output holds a malformed number for one metric, or no
\* token for it, raises nothing: it returns 0 for that metric and the value
\* of every metric whose token is well formed.
C15_MalformedNumberIsLocal ==
    TrialRan =>
        LET out == call.args[2].stdout
        IN  /\ ~call.ret.exc
            /\ (out.iops.found /\ out.iops.wellformed) <=> call.ret.val[1] > 0
            /\ (out.lat.found /\ out.lat.wellformed) <=> call.ret.val[2] > 0
            /\ (out.bw.found /\ out.bw.wellformed) <=> call.ret.val[3] > 0

\* The multiplier a suffix letter stands for, in either case.
BinaryBase(letter) ==
    CASE letter \in {"k", "K"} -> 1024
      [] letter \in {"m", "M"} -> 1024 * 1024
      [] letter \in {"g", "G"} -> 1024 * 1024 * 1024
      [] OTHER -> 1

DecimalBase(letter) ==
    CASE letter \in {"k", "K"} -> 1000
      [] letter \in {"m", "M"} -> 1000 * 1000
      [] letter \in {"g", "G"} -> 1000 * 1000 * 1000
      [] OTHER -> 1

\* The bandwidth extractor applied on its own has matched its token.
BandwidthMatched ==
    call.fn = "extract_bandwidth" /\ ~call.ret.exc /\ call.ret.val \notin {0, None}

\* C16: whichever step of the bandwidth cascade matches a token, the value
\* returned is the number scaled with the binary base of its suffix, as it is
\* or divided by 1024; never the number scaled with a decimal base.
C16_BandwidthBasesAreBinary ==
    BandwidthMatched =>
        LET tok == call.args[2]
        IN  call.ret.val \in {tok.num * BinaryBase(tok.unit),
                              (tok.num * BinaryBase(tok.unit)) \div 1024}

\* C17: for every bandwidth token matched, in every variant, the value
\* returned is the number times the binary base of its suffix, divided by
\* 1024 (kilobytes per second).
C17_BandwidthIsInKilobytes ==
    BandwidthMatched =>
        LET tok == call.args[2]
        IN  call.ret.val = (tok.num * BinaryBase(tok.unit)) \div 1024

\* C18: for the suffixes none, k, m and g and both bases the unit converter
\* returns the value times the multiplier of the suffix (the value itself
\* without a suffix), and an unknown suffix letter multiplies by 1.
C18_ConverterScales ==
    (call.fn = "convert_units" /\ call.args[3] \in {"", "k", "m", "g", "x"}) =>
        LET val == call.args[2]
            unit == call.args[3]
            binary == call.args[4]
        IN  /\ call.ret = val * (IF binary THEN BinaryBase(unit) ELSE DecimalBase(unit))
            /\ unit \in {"", "x"} => call.ret = val

\* The converter has scaled 0.001 with the suffix g in the binary base.
C18_Witness ==
    /\ call.fn = "convert_units"
    /\ call.args[2] = 1 /\ call.args[3] = "g" /\ call.args[4]
    /\ call.ret = 1024 * 1024 * 1024

\* C19: a throughput token with suffix k, m or g in either case is extracted
\* as the number times 1000, 10^6 or 10^9, and the unit converter scales a
\* suffix written in upper case as it scales it in lower case.
C19_SuffixesAreCaseInsensitive ==
    /\ call.fn = "extract_iops" =>
          /\ ~call.ret.exc
          /\ call.ret.val = call.args[2].num * DecimalBase(call.args[2].unit)
    /\ (call.fn = "convert_units" /\ call.args[3] # "x") =>
          call.ret = call.args[2] * (IF call.args[4] THEN BinaryBase(call.args[3])
                                     ELSE DecimalBase(call.args[3]))

\* agg is the aggregate of the list: 0.0 for a list without a positive entry,
\* else the geometric mean of its positive entries.
IsAggregateOf(agg, list) ==
    IF Positive(list) = <<>> THEN agg = 0 ELSE IsGeomeanOf(agg, Positive(list))

\* C20: each of the three aggregates of a workload is the aggregate of its
\* own list of trial values, whatever the same trials yielded for the other
\* two metrics.
C20_AggregatesAreIndependent ==
    \A s \in Sessions : pc[s] = "save_results" =>
        /\ IsAggregateOf(geomean_results[s][1], results[s].iops)
        /\ IsAggregateOf(geomean_results[s][2], results[s].lat)
        /\ IsAggregateOf(geomean_results[s][3], results[s].bw)

\* A trial without a latency has contributed its throughput: the throughput
\* aggregate comes from more trials than the latency aggregate, and both are
\* positive.
C20_Witness ==
    \E s \in Sessions :
        /\ pc[s] = "save_results"
        /\ \E i \in DOMAIN results[s].iops :
              results[s].iops[i] = 1200000 /\ results[s].lat[i] = 0
        /\ Len(Positive(results[s].iops)) > Len(Positive(results[s].lat))
        /\ geomean_results[s][1] > 0 /\ geomean_results[s][2] > 0
        /\ geomean_results[s][1] # 1000000

\* The step appends one row to test_results and changes no row it held.
Appends(row) == test_results' = Append(test_results, row)

\* C21: the store only grows.  A step adds at most one run row, and only the
\* run creation of a session that has none adds one; a step adds at most one
\* result row, and only the save_results of a session that has run all the
\* trials of the workload adds one, for that workload and that session's run;
\* a trial leaves the tables as they are; every other step leaves every row
\* as it is; a run never holds two rows for a workload name, and no row holds
\* a negative or a null metric.
C21_StoreIsAppendOnly ==
    [][/\ test_runs \subseteq test_runs'
       /\ test_runs' # test_runs =>
             \E s \in Sessions :
                 /\ pc[s] = "save_run_metadata" /\ ~Created(s) /\ Created(s)'
                 /\ test_runs' = test_runs \cup {run_id'[s]}
                 /\ run_id'[s] \notin test_runs
       /\ test_results' # test_results =>
             \E s \in Sessions :
                 /\ pc[s] = "save_results"
                 /\ run[s] = repeat /\ Len(results[s].iops) = repeat
                 /\ RowsOf(run_id[s], CurrentTest(s)) = {}
                 /\ \E row \in [run_id : {run_id[s]}, test_name : {CurrentTest(s)},
                                iops : {geomean_results[s][1]},
                                latency_ms : {geomean_results[s][2]},
                                bandwidth_kbs : {geomean_results[s][3]}] :
                        /\ Appends(row)
                        /\ row.iops >= 0 /\ row.latency_ms >= 0 /\ row.bandwidth_kbs >= 0
       /\ (\E s \in Sessions : fio_calls'[s] # fio_calls[s]) => UNCHANGED store
      ]_vars

\* A session has saved the one row of a workload two trials of which ran, one
\* of them failed, under the rows an earlier session had written.
C21_Witness ==
    \E s \in Sessions :
        /\ Saved(s) /\ ~db_error[s]
        /\ Len(results[s].iops) = 2
        /\ \E i \in 1..2 : results[s].iops[i] = 0 /\ results[s].lat[i] = 0
                           /\ results[s].bw[i] = 0
        /\ \E i \in 1..2 : results[s].iops[i] > 0
        /\ Cardinality(RowsOf(run_id[s], CurrentTest(s))) = 1
        /\ \E i \in DOMAIN test_results : test_results[i].run_id < run_id[s]
        /\ Len(test_results) = inserted[s] + Cardinality({i \in DOMAIN test_results :
                                                    test_results[i].run_id < run_id[s]})

Done(s, trials, looked, told) ==
    /\ fio_calls[s] = (test_i[s] - 1) * repeat + trials
    /\ lookups[s] = looked
    /\ reported[s] = SubSeq(Tests(variant), 1, told)

\* The step a session takes from its phase is the next phase's.
PhaseStep(s) ==
    CASE pc[s] = "run_test" ->
           pc'[s] = "trial" /\ run'[s] = 0 /\ results'[s] = EmptyResults
      [] pc[s] = "trial" ->
           \/ /\ run[s] < repeat
              /\ fio_calls'[s] = fio_calls[s] + 1
              /\ \/ pc'[s] = "trial" /\ run'[s] = run[s] + 1
                 \/ pc'[s] = "crashed"
           \/ /\ run[s] = repeat
              /\ pc'[s] = "save_results"
              /\ fio_calls'[s] = fio_calls[s]
      [] pc[s] = "save_results" ->
           /\ pc'[s] = "get_previous_results"
           /\ inserted'[s] \in {inserted[s], inserted[s] + 1}
      [] pc[s] = "get_previous_results" ->
           /\ pc'[s] = "display_results"
           /\ lookups'[s] = lookups[s] + 1
      [] pc[s] = "display_results" ->
           /\ reported'[s] = Append(reported[s], CurrentTest(s))
           /\ IF test_i[s] < Len(Tests(variant))
              THEN pc'[s] = "run_test" /\ test_i'[s] = test_i[s] + 1
              ELSE pc'[s] = "cleanup"
      [] OTHER -> TRUE

\* C23: a workload goes from its trials (all of them, one after another) to
\* the aggregation, the save, the lookup and the report, each taken once and
\* in this order, the only other way out of a phase being the end of the
\* session; no step runs the tool for two sessions or twice, the tool runs
\* only in the trial phase, and the trials of a workload start only when
\* every workload before it has been reported.
C23_PhasesInOrder ==
    /\ [](\A s \in Sessions :
            /\ pc[s] = "run_test" => Done(s, 0, test_i[s] - 1, test_i[s] - 1)
            /\ pc[s] = "trial" => Done(s, run[s], test_i[s] - 1, test_i[s] - 1)
            /\ pc[s] = "save_results" => Done(s, repeat, test_i[s] - 1, test_i[s] - 1)
            /\ pc[s] = "get_previous_results" =>
                  Done(s, repeat, test_i[s] - 1, test_i[s] - 1)
            /\ pc[s] = "display_results" => Done(s, repeat, test_i[s], test_i[s] - 1)
            /\ pc[s] = "cleanup" => Done(s, repeat, test_i[s], test_i[s]))
    /\ [][/\ \A s \in Sessions :
                <<pc[s], run[s], fio_calls[s], lookups[s], inserted[s], reported[s]>>
                  # <<pc[s], run[s], fio_calls[s], lookups[s], inserted[s], reported[s]>>'
                => PhaseStep(s)
          /\ Cardinality({s \in Sessions : fio_calls'[s] # fio_calls[s]}) <= 1
         ]_vars

\* A session that has reported its first workload after two trials, one
\* lookup and one report is in the trials of its second.
C23_Witness ==
    \E s \in Sessions :
        /\ pc[s] = "trial" /\ test_i[s] = 2 /\ run[s] = 1
        /\ repeat = 2 /\ fio_calls[s] = 3
        /\ lookups[s] = 1 /\ Len(reported[s]) = 1

\* C24: a tool invocation that is not the first of its workload starts only
\* when the pause has taken place since the invocation before it, whether that
\* one succeeded or failed.
C24_PauseBetweenTrials ==
    [][\A s \in Sessions :
          (fio_calls'[s] = fio_calls[s] + 1 /\ run[s] > 0) => slept[s]
      ]_vars

\* C25: whenever a storage call has returned, on its success path or on its
\* storage-error path, the connection it opened is closed: no session holds
\* an open connection while it runs a trial or goes from one workload to the
\* next.
C25_ConnectionsAreClosed ==
    \A s \in Sessions :
        pc[s] \in {"get_storage_info", "run_all_tests", "run_test", "trial",
                   "save_results", "get_previous_results", "display_results",
                   "cleanup"} => ~unclosed[s]

\* display_results has just returned for the last workload of reported.
JustReported(s) == pc[s] \in {"run_test", "cleanup"} /\ reported[s] # <<>>

LastReported(s) == reported[s][Len(reported[s])]

\* C26: what a lookup returns is the triple of a row for the workload that
\* belongs to a run with an id below the session's own; when no such row
\* exists, although the session has just written its own row, the lookup
\* returns absent and the workload is reported without a comparison.
C26_NeverComparedWithItself ==
    \A s \in Sessions :
        /\ LookedUp(s) =>
              /\ prev_metrics[s] # NoPrevious =>
                    \E i \in Earlier(CurrentTest(s), run_id[s]) :
                        /\ test_results[i].run_id < run_id[s]
                        /\ prev_metrics[s] = Triple(test_results[i])
              /\ Earlier(CurrentTest(s), run_id[s]) = {} => prev_metrics[s] = NoPrevious
        /\ (JustReported(s) /\ Earlier(LastReported(s), run_id[s]) = {}) => shown[s] = <<>>

\* A session has written its own row for a workload no earlier run holds a
\* row for, with a positive throughput, and its lookup has returned absent.
C26_Witness ==
    \E s \in Sessions :
        /\ LookedUp(s) /\ ~db_error[s]
        /\ \E i \in RowsOf(run_id[s], CurrentTest(s)) : test_results[i].iops > 0
        /\ Earlier(CurrentTest(s), run_id[s]) = {}
        /\ prev_metrics[s] = NoPrevious

\* The loop of the session is over: the aggregation is what comes next.
AggregationStarts(s) == pc[s] = "trial" /\ run[s] >= repeat

\* The triples a trial that returns can contribute: three zeros when the tool
\* failed, else what the extractors find in a report.
TrialTriples ==
    {<<0, 0, 0>>} \cup {extract_metrics(variant, out).val :
                          out \in {o \in stdouts : ~extract_metrics(variant, o).exc}}

\* C27: when the aggregation starts each of the three lists holds exactly as
\* many entries as trials are configured; every trial that returns has added
\* one entry at the end of each list, three zeros when it failed, and nothing
\* else changes the lists while the trials run.
C27_ListsHoldOneEntryPerTrial ==
    /\ [](\A s \in Sessions :
            /\ AggregationStarts(s) =>
                  /\ Len(results[s].iops) = repeat
                  /\ Len(results[s].lat) = repeat
                  /\ Len(results[s].bw) = repeat
            /\ pc[s] = "trial" =>
                  /\ Len(results[s].iops) = run[s]
                  /\ Len(results[s].lat) = run[s]
                  /\ Len(results[s].bw) = run[s])
    /\ [][\A s \in Sessions :
            (pc[s] = "trial" /\ pc'[s] \notin Terminal) =>
                IF fio_calls'[s] = fio_calls[s] + 1
                THEN \E t \in TrialTriples :
                        /\ results'[s].iops = Append(results[s].iops, t[1])
                        /\ results'[s].lat = Append(results[s].lat, t[2])
                        /\ results'[s].bw = Append(results[s].bw, t[3])
                ELSE results'[s] = results[s]
         ]_vars

\* The aggregation starts on two trials the first of which failed: each list
\* holds two entries, the first a zero.
C27_Witness ==
    \E s \in Sessions :
        /\ AggregationStarts(s) /\ repeat = 2
        /\ results[s].iops[1] = 0 /\ results[s].lat[1] = 0 /\ results[s].bw[1] = 0
        /\ results[s].iops[2] > 0 /\ results[s].bw[2] > 0
        /\ Len(results[s].iops) = 2 /\ Len(results[s].lat) = 2 /\ Len(results[s].bw) = 2

\* The rows that carry a run id.
RowsOfRun(rid) == {i \in DOMAIN test_results : test_results[i].run_id = rid}

\* C28: every result row carries the id of a run row of the table; the step
\* that writes a row is taken by a session whose run row is committed and
\* gives the row that session's id, which no other session with a run holds;
\* the rows under a session's id are as many as the session has written.
C28_RowsBelongToTheWritersRun ==
    /\ [](/\ \A i \in DOMAIN test_results :
                test_results[i].run_id # None /\ test_results[i].run_id \in test_runs
          /\ \A s \in Sessions :
                Created(s) => Cardinality(RowsOfRun(run_id[s])) = inserted[s])
    /\ [][test_results' # test_results =>
            \E s \in Sessions :
                /\ inserted'[s] = inserted[s] + 1
                /\ Created(s) /\ run_id[s] \in test_runs
                /\ test_results'[Len(test_results')].run_id = run_id[s]
                /\ \A t \in Sessions \ {s} : Created(t) => run_id[t] # run_id[s]
         ]_vars

\* Two sessions have written rows, each under its own run, after a session
\* whose run creation failed.
C28_Witness ==
    \E s, t, u \in Sessions :
        /\ s # t /\ Created(s) /\ Created(t)
        /\ inserted[s] > 0 /\ inserted[t] > 0
        /\ RowsOfRun(run_id[s]) # {} /\ RowsOfRun(run_id[t]) # {}
        /\ ended_by[u] = "save_run_metadata"

\* C29: a change is classified by the test change < 0 alone.  A current value
\* equal to a non-zero previous one is printed as "+0.00%", in green for
\* throughput and bandwidth and in red for latency; a change that is not
\* negative is printed with "+", a negative one with "-", however small.
C29_ZeroChangeIsNotNegative ==
    (call.fn = "calc_percentage_change" /\ ~call.ret.na) =>
        LET current == call.args[1]
            previous == call.args[2]
            is_latency == call.args[3]
            r == call.ret
        IN  /\ current = previous =>
                 r = [na |-> FALSE, colour |-> IF is_latency THEN "RED" ELSE "GREEN",
                      sign |-> "+", hundredths |-> 0]
            /\ current >= previous => r.sign = "+"
            /\ current < previous => r.sign = "-"
            /\ r.colour = IF (r.sign = "-") = is_latency THEN "GREEN" ELSE "RED"

\* A latency of 100.0 against a previous 100.0 has been reported in red as
\* "+0.00%".
C29_Witness ==
    /\ call.fn = "calc_percentage_change"
    /\ call.args = <<100000, 100000, TRUE>>
    /\ call.ret = [na |-> FALSE, colour |-> "RED", sign |-> "+", hundredths |-> 0]

\* C30: sessions that run at the same time hold different run ids once their
\* runs are created, and what a lookup of a session returns is the triple of
\* a row of a run with a smaller id: with no row for the workload under a
\* smaller id it returns absent, whatever the session with the greater id has
\* written already.
C30_InterleavedSessionsLookBack ==
    \A s \in Sessions :
        /\ \A t \in Sessions \ {s} :
              (Created(s) /\ Created(t)) => run_id[s] # run_id[t]
        /\ LookedUp(s) =>
              IF Earlier(CurrentTest(s), run_id[s]) = {}
              THEN prev_metrics[s] = NoPrevious
              ELSE prev_metrics[s] # NoPrevious =>
                      \E i \in DOMAIN test_results :
                          /\ test_results[i].test_name = CurrentTest(s)
                          /\ test_results[i].run_id < run_id[s]
                          /\ prev_metrics[s] = Triple(test_results[i])

\* Both sessions are running; the one with the smaller run id has looked up a
\* workload for which the other has already written its row, and has got
\* absent without a storage error.
C30_Witness ==
    \E s, t \in Sessions :
        /\ Created(s) /\ Created(t) /\ run_id[s] < run_id[t]
        /\ pc[t] \notin Terminal
        /\ LookedUp(s) /\ ~db_error[s]
        /\ RowsOf(run_id[t], CurrentTest(s)) # {}
        /\ RowsOf(run_id[s], CurrentTest(s)) # {}
        /\ prev_metrics[s] = NoPrevious

====
